---- MODULE Spec2Model ----
(***************************************************************************)
(* Model of src/app.py: the /generate_question endpoint, the               *)
(* EnhancedQuestionGenerator it constructs per request, analyze_code,      *)
(* extract_docstrings and generate_questions.                              *)
(*                                                                         *)
(* A snippet is represented by what ast.parse makes of it: either the      *)
(* parser's message, or a Module whose nodes are listed in ast.walk        *)
(* (breadth-first) order.  Only the node types that the isinstance tests   *)
(* of the source can tell apart, or that a reader would count as the same  *)
(* construct (async def, from-import), are kept.                           *)
(***************************************************************************)
EXTENDS Integers, Sequences, FiniteSets, TLC

\* ------------------------------------------------------------------ bounds
MaxNodes == 2
MaxLine == 2
NumRequests == 2

Requests == 1..NumRequests
Lines == 1..MaxLine

\* --------------------------------------------------------- sequence helpers
Range(s) == {s[i] : i \in 1..Len(s)}

RECURSIVE JoinChars(_)
JoinChars(cs) == IF cs = <<>> THEN "" ELSE Head(cs) \o JoinChars(Tail(cs))

RECURSIVE SeqsUpTo(_, _)
SeqsUpTo(S, n) ==
  IF n = 0 THEN {<<>>}
  ELSE LET shorter == SeqsUpTo(S, n - 1)
       IN shorter \cup {Append(s, e) : s \in {t \in shorter : Len(t) = n - 1}, e \in S}

\* ------------------------------------------------ syntax trees (ast module)
NoArguments == [posonlyargs |-> <<>>, args |-> <<>>, vararg |-> <<>>,
                kwonlyargs |-> <<>>, kwarg |-> <<>>]
Positional(names) == [NoArguments EXCEPT !.args = names]
NoDoc == [present |-> FALSE, text |-> <<>>]
Doc(chars) == [present |-> TRUE, text |-> chars]

MkNode(t, name, lineno, args, names, doc) ==
  [type |-> t, name |-> name, lineno |-> lineno, args |-> args,
   names |-> names, doc |-> doc]

FunctionDefNode(name, lineno, args, doc) == MkNode("FunctionDef", name, lineno, args, <<>>, doc)
AsyncFunctionDefNode(name, lineno, args) == MkNode("AsyncFunctionDef", name, lineno, args, <<>>, NoDoc)
NameNode(id, lineno) == MkNode("Name", id, lineno, NoArguments, <<>>, NoDoc)
ForNode(lineno) == MkNode("For", "", lineno, NoArguments, <<>>, NoDoc)
WhileNode(lineno) == MkNode("While", "", lineno, NoArguments, <<>>, NoDoc)
IfNode(lineno) == MkNode("If", "", lineno, NoArguments, <<>>, NoDoc)
ImportNode(names, lineno) == MkNode("Import", "", lineno, NoArguments, names, NoDoc)
ImportFromNode(module, names, lineno) == MkNode("ImportFrom", module, lineno, NoArguments, names, NoDoc)
ConstantNode(lineno) == MkNode("Constant", "", lineno, NoArguments, <<>>, NoDoc)
ModuleNode(doc) == MkNode("Module", "", 0, NoArguments, <<>>, doc)

\* The nodes a snippet is built from.
NodeChoices ==
       {FunctionDefNode("f", l, NoArguments, NoDoc) : l \in Lines}
  \cup {FunctionDefNode("f", l, Positional(<<"a">>), NoDoc) : l \in Lines}
  \cup {FunctionDefNode("g", 1, Positional(<<"a", "b">>), Doc(<<" ", "d", " ">>)),
        FunctionDefNode("g", 1, NoArguments, Doc(<<" ">>)),
        FunctionDefNode("g", 1, [NoArguments EXCEPT !.vararg = <<"rest">>], NoDoc),
        FunctionDefNode("g", 1, [NoArguments EXCEPT !.posonlyargs = <<"a">>], NoDoc),
        FunctionDefNode("g", 1, [NoArguments EXCEPT !.kwonlyargs = <<"k">>], NoDoc),
        AsyncFunctionDefNode("f", 1, Positional(<<"a">>))}
  \cup {NameNode("x", l) : l \in Lines}
  \cup {NameNode("y", 1)}
  \cup {ForNode(l) : l \in Lines}
  \cup {WhileNode(1)}
  \cup {IfNode(l) : l \in Lines}
  \cup {ImportNode(<<"os">>, l) : l \in Lines}
  \cup {ImportNode(<<"sys", "os">>, 1),
        ImportFromNode("os", <<"path">>, 1),
        ConstantNode(1)}

ModuleDocs == {NoDoc, Doc(<<"d">>), Doc(<<" ">>)}

CompoundTypes == {"FunctionDef", "AsyncFunctionDef", "For", "While", "If"}

\* A compound statement opens its line, so every other node of that line is
\* one of its descendants and comes later in breadth-first order.
WellFormed(nodes) ==
  \A i \in 1..Len(nodes) : \A j \in 1..Len(nodes) :
    (i < j /\ nodes[j].type \in CompoundTypes) => nodes[i].lineno # nodes[j].lineno

Trees == {[doc |-> d, nodes |-> ns] :
            d \in ModuleDocs, ns \in {s \in SeqsUpTo(NodeChoices, MaxNodes) : WellFormed(s)}}

ParserMessages == {"'(' was never closed (<unknown>, line 1)"}

NoTree == [doc |-> NoDoc, nodes |-> <<>>]
NoneSnippet == [kind |-> "None", msg |-> "", tree |-> NoTree]
EmptySnippet == [kind |-> "empty", msg |-> "", tree |-> NoTree]
InvalidSnippet(m) == [kind |-> "invalid", msg |-> m, tree |-> NoTree]
ValidSnippet(t) == [kind |-> "valid", msg |-> "", tree |-> t]

Snippets == {NoneSnippet, EmptySnippet}
            \cup {InvalidSnippet(m) : m \in ParserMessages}
            \cup {ValidSnippet(t) : t \in Trees}

\* ast.walk: the Module first, then its nodes breadth-first.
walk(tree) == <<ModuleNode(tree.doc)>> \o tree.nodes

isinstance(node, types) == node.type \in types

\* inspect.cleandoc on a one-line literal: the first line is left-stripped.
RECURSIVE lstrip(_)
lstrip(cs) == IF cs # <<>> /\ Head(cs) = " " THEN lstrip(Tail(cs)) ELSE cs

RECURSIVE rstrip(_)
rstrip(cs) == IF cs # <<>> /\ cs[Len(cs)] = " " THEN rstrip(SubSeq(cs, 1, Len(cs) - 1)) ELSE cs

strip(cs) == rstrip(lstrip(cs))

\* ast.get_docstring(node): None when the body does not open with a string
\* literal, else the cleaned literal.
get_docstring(node) ==
  IF node.doc.present THEN Doc(lstrip(node.doc.text)) ELSE NoDoc

\* ------------------------------------------------------- template catalog
Lit(text) == [kind |-> "lit", text |-> text]
Field(name) == [kind |-> "field", text |-> name]

\* self.question_templates as built by __init__.
Templates ==
  [function      |-> <<Lit("What does the function '"), Field("name"),
                       Lit("' at line "), Field("lineno"), Lit(" do?")>>,
   function_args |-> <<Lit("What are the purposes of the arguments in the function '"),
                       Field("name"), Lit("'?")>>,
   variable      |-> <<Lit("What is the role of the variable '"), Field("name"),
                       Lit("' at line "), Field("lineno"), Lit("?")>>,
   loop          |-> <<Lit("What is the significance of the loop starting at line "),
                       Field("lineno"), Lit("?")>>,
   conditional   |-> <<Lit("Under what conditions does the code block at line "),
                       Field("lineno"), Lit(" execute?")>>,
   import        |-> <<Lit("Why is the module '"), Field("name"),
                       Lit("' imported, and how is it used?")>>,
   docstring     |-> <<Lit("What does the following docstring explain: '"),
                       Field("doc"), Lit("'?")>>]

NoKw == [name |-> "", lineno |-> "", doc |-> ""]
KwName(name) == [NoKw EXCEPT !.name = name]
KwNameLine(name, lineno) == [NoKw EXCEPT !.name = name, !.lineno = ToString(lineno)]
KwLine(lineno) == [NoKw EXCEPT !.lineno = ToString(lineno)]
KwDoc(doc) == [NoKw EXCEPT !.doc = doc]

\* str.format: literal text is copied, each placeholder is replaced by the
\* keyword argument of its name.
RECURSIVE format(_, _)
format(template, kw) ==
  IF template = <<>> THEN ""
  ELSE LET part == Head(template)
       IN (IF part.kind = "lit" THEN part.text ELSE kw[part.text])
          \o format(Tail(template), kw)

\* ------------------------------------------------------------ analyze_code
\* extract_docstrings: the Module and every FunctionDef, in walk order, whose
\* docstring is neither None nor empty, stripped.
RECURSIVE docstrings_loop(_, _)
docstrings_loop(docstrings, nodes) ==
  IF nodes = <<>> THEN docstrings
  ELSE LET node == Head(nodes)
           docstring == get_docstring(node)
       IN IF isinstance(node, {"Module", "FunctionDef"})
             /\ docstring.present /\ docstring.text # <<>>
          THEN docstrings_loop(Append(docstrings, JoinChars(strip(docstring.text))), Tail(nodes))
          ELSE docstrings_loop(docstrings, Tail(nodes))

extract_docstrings(tree) == docstrings_loop(<<>>, walk(tree))

Functions(tree) ==
  LET sel == SelectSeq(walk(tree), LAMBDA node : isinstance(node, {"FunctionDef"}))
  IN [i \in 1..Len(sel) |->
        [name |-> sel[i].name, lineno |-> sel[i].lineno, args |-> sel[i].args.args]]

Variables(tree) ==
  LET sel == SelectSeq(walk(tree), LAMBDA node : isinstance(node, {"Name"}))
  IN [i \in 1..Len(sel) |-> [name |-> sel[i].name, lineno |-> sel[i].lineno]]

Loops(tree) ==
  LET sel == SelectSeq(walk(tree), LAMBDA node : isinstance(node, {"For", "While"}))
  IN [i \in 1..Len(sel) |-> [lineno |-> sel[i].lineno]]

Conditionals(tree) ==
  LET sel == SelectSeq(walk(tree), LAMBDA node : isinstance(node, {"If"}))
  IN [i \in 1..Len(sel) |-> [lineno |-> sel[i].lineno]]

Imports(tree) ==
  LET sel == SelectSeq(walk(tree), LAMBDA node : isinstance(node, {"Import"}))
  IN [i \in 1..Len(sel) |-> [name |-> sel[i].names[1], lineno |-> sel[i].lineno]]

Categories == {"functions", "variables", "loops", "conditionals", "imports", "docstrings"}

\* analyze_code with the parser's exception swallowed into an empty fact set.
analyze_code_swallow(code_snippet) ==
  IF code_snippet.kind = "valid"
  THEN [functions    |-> Functions(code_snippet.tree),
        variables    |-> Variables(code_snippet.tree),
        loops        |-> Loops(code_snippet.tree),
        conditionals |-> Conditionals(code_snippet.tree),
        imports      |-> Imports(code_snippet.tree),
        docstrings   |-> extract_docstrings(code_snippet.tree)]
  ELSE [functions |-> <<>>, variables |-> <<>>, loops |-> <<>>,
        conditionals |-> <<>>, imports |-> <<>>, docstrings |-> <<>>]

\* ast.parse raises on a snippet that is not valid source; analyze_code turns
\* the exception into {"error": str(e)}.
analyze_code(code_snippet) ==
  IF code_snippet.kind = "valid"
  THEN [functions    |-> Functions(code_snippet.tree),
        variables    |-> Variables(code_snippet.tree),
        loops        |-> Loops(code_snippet.tree),
        conditionals |-> Conditionals(code_snippet.tree),
        imports      |-> Imports(code_snippet.tree),
        docstrings   |-> extract_docstrings(code_snippet.tree)]
  ELSE [error |-> code_snippet.msg]

\* ------------------------------------------------------ generate_questions
\* function_loop with the arguments question appended ahead of the base one.
RECURSIVE function_loop_args_first(_, _, _)
function_loop_args_first(questions, funcs, templates) ==
  IF funcs = <<>> THEN questions
  ELSE LET func == Head(funcs)
           first == IF func.args # <<>>
                    THEN Append(questions, format(templates.function_args, KwName(func.name)))
                    ELSE questions
           both == Append(first,
                          format(templates.function, KwNameLine(func.name, func.lineno)))
       IN function_loop_args_first(both, Tail(funcs), templates)

RECURSIVE function_loop(_, _, _)
function_loop(questions, funcs, templates) ==
  IF funcs = <<>> THEN questions
  ELSE LET func == Head(funcs)
           base == Append(questions,
                          format(templates.function, KwNameLine(func.name, func.lineno)))
           both == IF func.args # <<>>
                   THEN Append(base, format(templates.function_args, KwName(func.name)))
                   ELSE base
       IN function_loop(both, Tail(funcs), templates)

RECURSIVE variable_loop(_, _, _)
variable_loop(questions, vars, templates) ==
  IF vars = <<>> THEN questions
  ELSE variable_loop(
         Append(questions,
                format(templates.variable, KwNameLine(Head(vars).name, Head(vars).lineno))),
         Tail(vars), templates)

RECURSIVE loop_loop(_, _, _)
loop_loop(questions, loops, templates) ==
  IF loops = <<>> THEN questions
  ELSE loop_loop(Append(questions, format(templates.loop, KwLine(Head(loops).lineno))),
                 Tail(loops), templates)

RECURSIVE conditional_loop(_, _, _)
conditional_loop(questions, conds, templates) ==
  IF conds = <<>> THEN questions
  ELSE conditional_loop(
         Append(questions, format(templates.conditional, KwLine(Head(conds).lineno))),
         Tail(conds), templates)

RECURSIVE import_loop(_, _, _)
import_loop(questions, imps, templates) ==
  IF imps = <<>> THEN questions
  ELSE import_loop(Append(questions, format(templates.import, KwName(Head(imps).name))),
                   Tail(imps), templates)

RECURSIVE docstring_loop(_, _, _)
docstring_loop(questions, docs, templates) ==
  IF docs = <<>> THEN questions
  ELSE docstring_loop(Append(questions, format(templates.docstring, KwDoc(Head(docs)))),
                      Tail(docs), templates)

\* list(dict.fromkeys(questions)): a key is inserted the first time it is
\* seen; later repeats leave the insertion order alone.
RECURSIVE fromkeys(_, _)
fromkeys(keys, questions) ==
  IF questions = <<>> THEN keys
  ELSE IF Head(questions) \in Range(keys)
       THEN fromkeys(keys, Tail(questions))
       ELSE fromkeys(Append(keys, Head(questions)), Tail(questions))

\* Deduplication that keeps the last occurrence of a repeated string.
RECURSIVE keep_last(_)
keep_last(questions) ==
  IF questions = <<>> THEN <<>>
  ELSE IF Head(questions) \in Range(Tail(questions))
       THEN keep_last(Tail(questions))
       ELSE <<Head(questions)>> \o keep_last(Tail(questions))

DeduplicateKeepLast(questions) == keep_last(questions)

Deduplicate(questions) == fromkeys(<<>>, questions)

\* ------------------------------------------------------------- JSON values
JNone == [type |-> "none", str |-> "", list |-> <<>>]
JStr(text) == [type |-> "str", str |-> text, list |-> <<>>]
JList(items) == [type |-> "list", str |-> "", list |-> items]

\* ------------------------------------------------------------------- state
VARIABLES
  pc,                \* where each request's handler stands (source line)
  request,           \* the request body as Flask presents it
  code_snippet,      \* local of generate_question
  generator,         \* the EnhancedQuestionGenerator of the request
  analysis,          \* local of generate_questions
  questions,         \* local of generate_questions
  unique_questions,  \* local of generate_questions
  question,          \* what generate_questions returned
  exc,               \* the exception in flight, if any
  response,          \* what the endpoint answered
  calls              \* the functions the handler has entered so far

vars == <<pc, request, code_snippet, generator, analysis, questions,
          unique_questions, question, exc, response, calls>>

UnboundSnippet == [kind |-> "unbound", msg |-> "", tree |-> NoTree]
NoGenerator == [bound |-> FALSE]
NoAnalysis == [unbound |-> TRUE]
Unbound == [bound |-> FALSE, val |-> <<>>]
Bound(val) == [bound |-> TRUE, val |-> val]
NoException == [type |-> "", msg |-> ""]
NoResponse == [status |-> 0, key |-> "", value |-> JNone]
NoRequest == [json |-> "", code_snippet |-> UnboundSnippet]

\* request.json is either a JSON object, or there is none to call .get on
\* (no JSON body, a JSON null or a JSON array).
Bodies(snippets) ==
  {[json |-> "none", code_snippet |-> UnboundSnippet]}
  \cup {[json |-> "object", code_snippet |-> s] : s \in snippets}

\* The bodies sent when several requests are served at once.
ConcSnippets ==
  {NoneSnippet,
   InvalidSnippet("'(' was never closed (<unknown>, line 1)"),
   ValidSnippet([doc |-> NoDoc, nodes |-> <<ConstantNode(1)>>]),
   ValidSnippet([doc |-> NoDoc,
                 nodes |-> <<FunctionDefNode("f", 1, Positional(<<"a">>), NoDoc),
                             NameNode("x", 1)>>]),
   ValidSnippet([doc |-> Doc(<<"d">>),
                 nodes |-> <<ImportNode(<<"os">>, 1), ImportNode(<<"os">>, 2)>>])}

Init ==
  /\ pc = [r \in Requests |-> "idle"]
  /\ request = [r \in Requests |-> NoRequest]
  /\ code_snippet = [r \in Requests |-> UnboundSnippet]
  /\ generator = [r \in Requests |-> NoGenerator]
  /\ analysis = [r \in Requests |-> NoAnalysis]
  /\ questions = [r \in Requests |-> Unbound]
  /\ unique_questions = [r \in Requests |-> Unbound]
  /\ question = [r \in Requests |-> JNone]
  /\ exc = [r \in Requests |-> NoException]
  /\ response = [r \in Requests |-> NoResponse]
  /\ calls = [r \in Requests |-> {}]

\* ---------------------------------------------------------------- handler
\* A POST /generate_question arrives.
Receive(r, bodies) ==
  /\ pc[r] = "idle"
  /\ \E b \in bodies : request' = [request EXCEPT ![r] = b]
  /\ pc' = [pc EXCEPT ![r] = "l137"]
  /\ calls' = [calls EXCEPT ![r] = {"generate_question"}]
  /\ UNCHANGED <<code_snippet, generator, analysis, questions, unique_questions,
                 question, exc, response>>

\* line 137: code_snippet = request.json.get("code_snippet")
GetSnippet(r) ==
  /\ pc[r] = "l137"
  /\ IF request[r].json = "object"
     THEN /\ code_snippet' = [code_snippet EXCEPT ![r] = request[r].code_snippet]
          /\ pc' = [pc EXCEPT ![r] = "l138"]
          /\ exc' = exc
     ELSE /\ exc' = [exc EXCEPT ![r] =
                       [type |-> "AttributeError",
                        msg |-> "'NoneType' object has no attribute 'get'"]]
          /\ pc' = [pc EXCEPT ![r] = "l145"]
          /\ code_snippet' = code_snippet
  /\ UNCHANGED <<request, generator, analysis, questions, unique_questions,
                 question, response, calls>>

\* lines 138-139: if not code_snippet: return error, 400
CheckSnippet(r) ==
  /\ pc[r] = "l138"
  /\ IF code_snippet[r].kind \in {"None", "empty"}
     THEN /\ response' = [response EXCEPT ![r] =
                            [status |-> 400, key |-> "error",
                             value |-> JStr("No code snippet provided")]]
          /\ pc' = [pc EXCEPT ![r] = "done"]
     ELSE /\ response' = response
          /\ pc' = [pc EXCEPT ![r] = "l141"]
  /\ UNCHANGED <<request, code_snippet, generator, analysis, questions,
                 unique_questions, question, exc, calls>>

\* line 141: generator = EnhancedQuestionGenerator()
Construct(r) ==
  /\ pc[r] = "l141"
  /\ generator' = [generator EXCEPT ![r] = [bound |-> TRUE, question_templates |-> Templates]]
  /\ calls' = [calls EXCEPT ![r] = @ \cup {"__init__"}]
  /\ pc' = [pc EXCEPT ![r] = "l142"]
  /\ UNCHANGED <<request, code_snippet, analysis, questions, unique_questions,
                 question, exc, response>>

\* lines 142, 81: generate_questions is entered and calls analyze_code
Analyze(r) ==
  /\ pc[r] = "l142"
  /\ analysis' = [analysis EXCEPT ![r] = analyze_code(code_snippet[r])]
  /\ calls' = [calls EXCEPT ![r] =
                 @ \cup {"generate_questions", "analyze_code"}
                   \cup (IF code_snippet[r].kind = "valid" THEN {"extract_docstrings"} ELSE {})]
  /\ pc' = [pc EXCEPT ![r] = "l82"]
  /\ UNCHANGED <<request, code_snippet, generator, questions, unique_questions,
                 question, exc, response>>

\* lines 82-83: if "error" in analysis: return [f"Error analyzing code: ..."]
CheckError(r) ==
  /\ pc[r] = "l82"
  /\ IF "error" \in DOMAIN analysis[r]
     THEN /\ question' = [question EXCEPT ![r] =
                            JList(<<"Error analyzing code: " \o analysis[r].error>>)]
          /\ pc' = [pc EXCEPT ![r] = "l143"]
     ELSE /\ question' = question
          /\ pc' = [pc EXCEPT ![r] = "l85"]
  /\ UNCHANGED <<request, code_snippet, generator, analysis, questions,
                 unique_questions, exc, response, calls>>

\* line 85 with one question list shared by the requests in flight.
StartQuestionsShared(r) ==
  /\ pc[r] = "l85"
  /\ \E o \in Requests \ {r} :
       questions' = [questions EXCEPT ![r] = Bound(questions[o].val)]
  /\ pc' = [pc EXCEPT ![r] = "l88"]
  /\ UNCHANGED <<request, code_snippet, generator, analysis, unique_questions,
                 question, exc, response, calls>>

\* line 85: questions = []
StartQuestions(r) ==
  /\ pc[r] = "l85"
  /\ questions' = [questions EXCEPT ![r] = Bound(<<>>)]
  /\ pc' = [pc EXCEPT ![r] = "l88"]
  /\ UNCHANGED <<request, code_snippet, generator, analysis, unique_questions,
                 question, exc, response, calls>>

\* lines 88-95: the for-loop over analysis["functions"], run to its end
FunctionQuestions(r) ==
  /\ pc[r] = "l88"
  /\ questions' = [questions EXCEPT ![r] =
                     Bound(function_loop(questions[r].val, analysis[r].functions,
                           generator[r].question_templates))]
  /\ pc' = [pc EXCEPT ![r] = "l98"]
  /\ UNCHANGED <<request, code_snippet, generator, analysis, unique_questions,
                 question, exc, response, calls>>

\* lines 98-101: the for-loop over analysis["variables"], run to its end
VariableQuestions(r) ==
  /\ pc[r] = "l98"
  /\ questions' = [questions EXCEPT ![r] =
                     Bound(variable_loop(questions[r].val, analysis[r].variables,
                           generator[r].question_templates))]
  /\ pc' = [pc EXCEPT ![r] = "l104"]
  /\ UNCHANGED <<request, code_snippet, generator, analysis, unique_questions,
                 question, exc, response, calls>>

\* lines 104-107: the for-loop over analysis["loops"], run to its end
LoopQuestions(r) ==
  /\ pc[r] = "l104"
  /\ questions' = [questions EXCEPT ![r] =
                     Bound(loop_loop(questions[r].val, analysis[r].loops,
                           generator[r].question_templates))]
  /\ pc' = [pc EXCEPT ![r] = "l110"]
  /\ UNCHANGED <<request, code_snippet, generator, analysis, unique_questions,
                 question, exc, response, calls>>

\* lines 110-113: the for-loop over analysis["conditionals"], run to its end
ConditionalQuestions(r) ==
  /\ pc[r] = "l110"
  /\ questions' = [questions EXCEPT ![r] =
                     Bound(conditional_loop(questions[r].val, analysis[r].conditionals,
                           generator[r].question_templates))]
  /\ pc' = [pc EXCEPT ![r] = "l116"]
  /\ UNCHANGED <<request, code_snippet, generator, analysis, unique_questions,
                 question, exc, response, calls>>

\* lines 116-119: the for-loop over analysis["imports"], run to its end
ImportQuestions(r) ==
  /\ pc[r] = "l116"
  /\ questions' = [questions EXCEPT ![r] =
                     Bound(import_loop(questions[r].val, analysis[r].imports,
                           generator[r].question_templates))]
  /\ pc' = [pc EXCEPT ![r] = "l122"]
  /\ UNCHANGED <<request, code_snippet, generator, analysis, unique_questions,
                 question, exc, response, calls>>

\* lines 122-125: the for-loop over analysis["docstrings"], run to its end
DocstringQuestions(r) ==
  /\ pc[r] = "l122"
  /\ questions' = [questions EXCEPT ![r] =
                     Bound(docstring_loop(questions[r].val, analysis[r].docstrings,
                           generator[r].question_templates))]
  /\ pc' = [pc EXCEPT ![r] = "l128"]
  /\ UNCHANGED <<request, code_snippet, generator, analysis, unique_questions,
                 question, exc, response, calls>>

\* line 128: unique_questions = list(dict.fromkeys(questions))
Dedup(r) ==
  /\ pc[r] = "l128"
  /\ unique_questions' = [unique_questions EXCEPT ![r] = Bound(Deduplicate(questions[r].val))]
  /\ pc' = [pc EXCEPT ![r] = "l131"]
  /\ UNCHANGED <<request, code_snippet, generator, analysis, questions,
                 question, exc, response, calls>>

\* line 131: return random.choice(unique_questions); random.choice raises
\* IndexError on an empty sequence.
Choice(r) ==
  /\ pc[r] = "l131"
  /\ calls' = [calls EXCEPT ![r] = @ \cup {"random.choice"}]
  /\ IF unique_questions[r].val = <<>>
     THEN /\ exc' = [exc EXCEPT ![r] =
                       [type |-> "IndexError",
                        msg |-> "Cannot choose from an empty sequence"]]
          /\ pc' = [pc EXCEPT ![r] = "l145"]
          /\ question' = question
     ELSE /\ \E i \in 1..Len(unique_questions[r].val) :
               question' = [question EXCEPT ![r] = JStr(unique_questions[r].val[i])]
          /\ pc' = [pc EXCEPT ![r] = "l143"]
          /\ exc' = exc
  /\ UNCHANGED <<request, code_snippet, generator, analysis, questions,
                 unique_questions, response>>

\* line 143: return jsonify({"question": question})
Respond(r) ==
  /\ pc[r] = "l143"
  /\ response' = [response EXCEPT ![r] =
                    [status |-> 200, key |-> "question", value |-> question[r]]]
  /\ pc' = [pc EXCEPT ![r] = "done"]
  /\ UNCHANGED <<request, code_snippet, generator, analysis, questions,
                 unique_questions, question, exc, calls>>

\* lines 145-146: except Exception as e: return jsonify({"error": str(e)}), 500
Except(r) ==
  /\ pc[r] = "l145"
  /\ response' = [response EXCEPT ![r] =
                    [status |-> 500, key |-> "error", value |-> JStr(exc[r].msg)]]
  /\ pc' = [pc EXCEPT ![r] = "done"]
  /\ UNCHANGED <<request, code_snippet, generator, analysis, questions,
                 unique_questions, question, exc, calls>>

Step(r) ==
  \/ GetSnippet(r)
  \/ CheckSnippet(r)
  \/ Construct(r)
  \/ Analyze(r)
  \/ CheckError(r)
  \/ StartQuestions(r)
  \/ FunctionQuestions(r)
  \/ VariableQuestions(r)
  \/ LoopQuestions(r)
  \/ ConditionalQuestions(r)
  \/ ImportQuestions(r)
  \/ DocstringQuestions(r)
  \/ Dedup(r)
  \/ Choice(r)
  \/ Respond(r)
  \/ Except(r)

\* One request at a time, over every body.
Next == Receive(1, Bodies(Snippets)) \/ Step(1)

Spec == Init /\ [][Next]_vars

\* Every request slot serves requests, interleaved line by line.
NextConc == \E r \in Requests : Receive(r, Bodies(ConcSnippets)) \/ Step(r)

SpecConc == Init /\ [][NextConc]_vars

\* ------------------------------------------------------ response statuses
SuccessStatus == 200
BadInputStatus == 400
InternalFailureStatus == 500

\* ------------------------------------------- what the claims are stated in
Done(r) == pc[r] = "done"
Parsed(r) == code_snippet[r].kind = "valid"
LoopsFinished(r) == questions[r].bound /\ pc[r] \in {"l128", "l131", "l143", "l145", "done"}
PoolBuilt(r) == unique_questions[r].bound
EmptyPool(r) == unique_questions[r] = Bound(<<>>)

\* The constructs a reader finds in a snippet, however the analyzer files them.
FunctionDefinitionTypes == {"FunctionDef", "AsyncFunctionDef"}
IsConstruct(node) ==
  \/ node.type \in FunctionDefinitionTypes \cup {"Name", "For", "While", "If", "Import", "ImportFrom"}
  \/ node.doc.present
ContainsConstruct(tree) == \E i \in 1..Len(walk(tree)) : IsConstruct(walk(tree)[i])

NumParams(node) ==
  Len(node.args.posonlyargs) + Len(node.args.args) + Len(node.args.vararg)
  + Len(node.args.kwonlyargs) + Len(node.args.kwarg)

RECURSIVE Flatten(_)
Flatten(ss) == IF ss = <<>> THEN <<>> ELSE Head(ss) \o Flatten(Tail(ss))

\* The question texts, written out.
BaseQuestion(name, lineno) ==
  "What does the function '" \o name \o "' at line " \o ToString(lineno) \o " do?"
ArgumentsQuestion(name) ==
  "What are the purposes of the arguments in the function '" \o name \o "'?"
VariableQuestion(name, lineno) ==
  "What is the role of the variable '" \o name \o "' at line " \o ToString(lineno) \o "?"
LoopQuestion(lineno) ==
  "What is the significance of the loop starting at line " \o ToString(lineno) \o "?"
ConditionalQuestion(lineno) ==
  "Under what conditions does the code block at line " \o ToString(lineno) \o " execute?"
ImportQuestion(name) == "Why is the module '" \o name \o "' imported, and how is it used?"
DocstringQuestion(doc) == "What does the following docstring explain: '" \o doc \o "'?"

FunctionPart(a) ==
  Flatten([i \in 1..Len(a.functions) |->
             IF a.functions[i].args = <<>>
             THEN <<BaseQuestion(a.functions[i].name, a.functions[i].lineno)>>
             ELSE <<BaseQuestion(a.functions[i].name, a.functions[i].lineno),
                    ArgumentsQuestion(a.functions[i].name)>>])
VariablePart(a) ==
  [i \in 1..Len(a.variables) |-> VariableQuestion(a.variables[i].name, a.variables[i].lineno)]
LoopPart(a) == [i \in 1..Len(a.loops) |-> LoopQuestion(a.loops[i].lineno)]
ConditionalPart(a) == [i \in 1..Len(a.conditionals) |-> ConditionalQuestion(a.conditionals[i].lineno)]
ImportPart(a) == [i \in 1..Len(a.imports) |-> ImportQuestion(a.imports[i].name)]
DocstringPart(a) == [i \in 1..Len(a.docstrings) |-> DocstringQuestion(a.docstrings[i])]

ExpectedQuestions(a) ==
  FunctionPart(a) \o VariablePart(a) \o LoopPart(a) \o ConditionalPart(a)
  \o ImportPart(a) \o DocstringPart(a)

NameOccurrences(tree) == {i \in 1..Len(walk(tree)) : walk(tree)[i].type = "Name"}

\* -------------------------------------------------------------------- C1
\* C1: a valid snippet that contains a function definition, variable, loop,
\* conditional, import or docstring is answered with one question string
\* taken from the deduplicated pool, and never hits the empty pool.
C1_ConstructYieldsQuestion ==
  \A r \in Requests :
    (Done(r) /\ Parsed(r) /\ ContainsConstruct(code_snippet[r].tree)) =>
      /\ PoolBuilt(r)
      /\ ~EmptyPool(r)
      /\ exc[r] = NoException
      /\ question[r].type = "str"
      /\ question[r].str \in Range(unique_questions[r].val)

\* -------------------------------------------------------------------- C2
\* C2: on a snippet that does not parse, analyze_code's result is the error
\* with the parser's message and holds no category list, and generate_questions
\* goes no further: no question list, no pool, no random.choice.
C2_InvalidStopsAfterAnalysis ==
  \A r \in Requests :
    code_snippet[r].kind = "invalid" =>
      /\ questions[r] = Unbound
      /\ unique_questions[r] = Unbound
      /\ "random.choice" \notin calls[r]
      /\ "analyze_code" \in calls[r] =>
           /\ analysis[r] = [error |-> code_snippet[r].msg]
           /\ DOMAIN analysis[r] \cap Categories = {}

C2_Witness ==
  \E r \in Requests :
    /\ Done(r)
    /\ code_snippet[r].kind = "invalid"
    /\ "analyze_code" \in calls[r]

\* -------------------------------------------------------------------- C3
\* C3: a snippet that parses to an empty pool is answered with a failure of its
\* own: no question, not a success, and not the status of the catch-all for
\* unexpected failures.
C3_EmptyPoolHasOwnError ==
  \A r \in Requests :
    (Done(r) /\ Parsed(r) /\ EmptyPool(r)) =>
      /\ response[r].key = "error"
      /\ response[r].status \notin {SuccessStatus, InternalFailureStatus}

\* -------------------------------------------------------------------- C4
\* C4: a response is a success with exactly one question string, or an error
\* text with a status; a syntax error and an empty pool are processing
\* failures: never a success, never bad input, never an unexpected failure.
C4_ResponseKinds ==
  \A r \in Requests :
    Done(r) =>
      /\ \/ /\ response[r].status = SuccessStatus
            /\ response[r].key = "question"
            /\ response[r].value.type = "str"
         \/ /\ response[r].status # SuccessStatus
            /\ response[r].key = "error"
            /\ response[r].value.type = "str"
      /\ (code_snippet[r].kind = "invalid" \/ EmptyPool(r)) =>
           /\ response[r].key = "error"
           /\ response[r].status \notin {SuccessStatus, BadInputStatus, InternalFailureStatus}

\* -------------------------------------------------------------------- C5
\* C5: a request without a usable code_snippet (no JSON object, no such field,
\* or an empty one) is answered 400 before the generator is touched, and not
\* with the status of an internal error.
C5_MissingSnippetIsBadInput ==
  \A r \in Requests :
    (Done(r) /\ (request[r].json = "none" \/ request[r].code_snippet.kind \in {"None", "empty"})) =>
      /\ response[r].status = BadInputStatus
      /\ response[r].status # InternalFailureStatus
      /\ calls[r] \cap {"__init__", "generate_questions", "analyze_code"} = {}

\* -------------------------------------------------------------------- C6
\* C6: when the loop over the functions has ended, the questions are, for each
\* function definition of the snippet in turn, its base question alone if it
\* has no parameter and its base question then its arguments question if it
\* has one or more parameters of any kind.
C6_OneOrTwoPerFunction ==
  \A r \in Requests :
    (pc[r] = "l98" /\ Parsed(r)) =>
      LET nodes == SelectSeq(walk(code_snippet[r].tree),
                             LAMBDA node : node.type \in FunctionDefinitionTypes)
      IN questions[r].val =
           Flatten([i \in 1..Len(nodes) |->
                      IF NumParams(nodes[i]) = 0
                      THEN <<BaseQuestion(nodes[i].name, nodes[i].lineno)>>
                      ELSE <<BaseQuestion(nodes[i].name, nodes[i].lineno),
                             ArgumentsQuestion(nodes[i].name)>>])

\* -------------------------------------------------------------------- C7
FirstIndex(q, text) == CHOOSE k \in 1..Len(q) : q[k] = text /\ \A m \in 1..(k - 1) : q[m] # text

\* C7: the pool holds every distinct rendered string exactly once, each at the
\* rank of its first occurrence among the first occurrences, in their order.
C7_FirstOccurrencesInOrder ==
  \A r \in Requests :
    PoolBuilt(r) =>
      LET q == questions[r].val
          u == unique_questions[r].val
      IN /\ Range(u) = Range(q)
         /\ \A i \in 1..Len(u) : \A j \in 1..Len(u) : i # j => u[i] # u[j]
         /\ \A i \in 1..Len(u) : \A j \in 1..Len(u) :
              i < j => FirstIndex(q, u[i]) < FirstIndex(q, u[j])
         /\ \A i \in 1..Len(u) :
              i = Cardinality({q[m] : m \in 1..FirstIndex(q, u[i])})

C7_Witness ==
  \E r \in Requests :
    /\ Done(r)
    /\ PoolBuilt(r)
    /\ LET q == questions[r].val
       IN \E i \in 1..Len(q) : \E j \in 1..Len(q) : \E k \in 1..Len(q) :
            i < j /\ j < k /\ q[i] = q[k] /\ q[j] # q[i] /\ q[j] \notin Range(SubSeq(q, 1, j - 1))

\* -------------------------------------------------------------------- C8
\* What the handler can answer to a body when it is the only one running.
Outcomes(body) ==
  IF body.json # "object"
  THEN {[status |-> InternalFailureStatus, key |-> "error",
         value |-> JStr("'NoneType' object has no attribute 'get'")]}
  ELSE IF body.code_snippet.kind \in {"None", "empty"}
  THEN {[status |-> BadInputStatus, key |-> "error", value |-> JStr("No code snippet provided")]}
  ELSE IF body.code_snippet.kind = "invalid"
  THEN {[status |-> SuccessStatus, key |-> "question",
         value |-> JList(<<"Error analyzing code: " \o body.code_snippet.msg>>)]}
  ELSE LET candidates == Range(ExpectedQuestions(analyze_code(body.code_snippet)))
       IN IF candidates = {}
          THEN {[status |-> InternalFailureStatus, key |-> "error",
                 value |-> JStr("Cannot choose from an empty sequence")]}
          ELSE {[status |-> SuccessStatus, key |-> "question", value |-> JStr(text)] :
                  text \in candidates}

\* C8: whatever the interleaving, a request's response is one its own body
\* alone allows, and every generator's template catalog is the initial one.
C8_RequestsIndependent ==
  \A r \in Requests :
    /\ generator[r].bound => generator[r].question_templates = Templates
    /\ Done(r) => response[r] \in Outcomes(request[r])

C8_Witness ==
  \E r \in Requests : \E o \in Requests :
    /\ r # o
    /\ Done(r) /\ response[r].status = SuccessStatus /\ response[r].value.type = "str"
    /\ pc[o] \in {"l128", "l131"} /\ questions[o].bound /\ questions[o].val # <<>>
    /\ request[r] # request[o]
    /\ response[r].value.str \notin Range(questions[o].val)

\* ------------------------------------------------------------------- C10
\* C10: once the loops have ended, the question list is the function questions
\* (base, then arguments when the record has any), then the variable, loop,
\* conditional, import and docstring questions, each category in the order of
\* its records, with one variable question per Name node of the snippet.
C10_CategoryOrder ==
  \A r \in Requests :
    LoopsFinished(r) =>
      /\ questions[r].val = ExpectedQuestions(analysis[r])
      /\ Len(VariablePart(analysis[r])) = Cardinality(NameOccurrences(code_snippet[r].tree))

C10_Witness ==
  \E r \in Requests :
    /\ Done(r)
    /\ LoopsFinished(r)
    /\ Len(FunctionPart(analysis[r])) >= 2
    /\ Len(analysis[r].variables) >= 1
    /\ Len(analysis[r].docstrings) >= 1
    /\ Len(questions[r].val) >= 4

====
